---- MODULE Spec2Model ----
(***************************************************************************)
(* A model of tonic/models/vic/vic.py: the VIC runner handle (class VIC:   *)
(* __init__, run, _call_vic) and the header transform of read_vic_ascii.   *)
(***************************************************************************)
EXTENDS Integers, Sequences, FiniteSets, TLC

(***************************************************************************)
(* Python values.  A value carries its type t, a number v and a text s.    *)
(* A float's v counts tenths (1.0 is v = 10), every other number is v.     *)
(***************************************************************************)
PyNone == [t |-> "NoneType", v |-> 0, s |-> ""]
PyInt(n) == [t |-> "int", v |-> n, s |-> ""]
PyBool(b) == [t |-> "bool", v |-> IF b THEN 1 ELSE 0, s |-> ""]
PyFloat(tenths) == [t |-> "float", v |-> tenths, s |-> ""]
PyStr(x) == [t |-> "str", v |-> 0, s |-> x]
PyTrue == PyBool(TRUE)
PyFalse == PyBool(FALSE)

\* isinstance(x, int): bool is a subclass of int.
isinstance_int(x) == x.t \in {"int", "bool"}

\* x == 1 in Python: numeric comparison across int, bool and float.
py_eq_1(x) ==
    \/ x.t \in {"int", "bool"} /\ x.v = 1
    \/ x.t = "float" /\ x.v = 10

\* bool(x): the truth value `if x:` tests.
truthy(x) ==
    CASE x.t = "NoneType" -> FALSE
      [] x.t = "str" -> x.s # ""
      [] OTHER -> x.v # 0

Digit(d) ==
    CASE d = 0 -> "0" [] d = 1 -> "1" [] d = 2 -> "2" [] d = 3 -> "3"
      [] d = 4 -> "4" [] d = 5 -> "5" [] d = 6 -> "6" [] d = 7 -> "7"
      [] d = 8 -> "8" [] d = 9 -> "9"

RECURSIVE NatToStr(_)
NatToStr(n) == IF n < 10 THEN Digit(n) ELSE NatToStr(n \div 10) \o Digit(n % 10)

\* '%.0d' % n: the decimal form of an integer (a bool formats as 0 or 1).
format_d(n) == IF n < 0 THEN "-" \o NatToStr(0 - n) ELSE NatToStr(n)

\* '{0}'.format(x) for a str or an int.
format_0(x) == IF x.t = "str" THEN x.s ELSE format_d(x.v)

\* ' '.join(xs) raises TypeError unless every item is a str.
join_ok(xs) == \A i \in 1..Len(xs) : xs[i].t = "str"

RECURSIVE join(_)
join(xs) ==
    IF xs = <<>> THEN ""
    ELSE IF Len(xs) = 1 THEN xs[1].s
    ELSE xs[1].s \o " " \o join(Tail(xs))

(***************************************************************************)
(* Module constants of vic.py.                                             *)
(***************************************************************************)
default_vic_valgrind_error_code == 125
default_vic_valgrind_suppressions_path == "vic_valgrind_suppressions.supp"

(***************************************************************************)
(* Bounds of the model.                                                    *)
(***************************************************************************)
MaxCalls == 2
MaxTick == 2
MaxPieces == 4

(***************************************************************************)
(* The world the handle lives in.                                          *)
(***************************************************************************)
\* Paths that are regular files with the execute bit set.
Executables == {"vic_classic", "vic_image"}
\* Regular files that exist from the start (README is not executable).
RegularFiles == Executables \cup {"README", "gp.txt"}
\* Paths a caller may hand to VIC(...).
Paths == Executables \cup {"README", "missing"}
\* Directories that exist.
Directories == {"logs"}
\* Exit codes a child may return.
RetCodes == {0, 1}
\* The date part of the clock, now.strftime("%Y%m%d"); the model stays within one day.
Today == "20161001"

\* Bytes a child wrote: identified by the stream and the child's number.
Stdout(id) == <<"stdout", id>>
Stderr(id) == <<"stderr", id>>

VARIABLES
    constructed,    \* a VIC handle exists
    executable,     \* self.executable
    version,        \* self.version
    options,        \* self.options
    args,           \* self.args
    argstring,      \* self.argstring
    stdout,         \* self.stdout
    stderr,         \* self.stderr
    returncode,     \* self.returncode
    env,            \* os.environ, the two variables _call_vic reads
    suppFiles,      \* suppressions files present on disk
    tmpFiles,       \* files made by tempfile.mkstemp, in order, with their content
    logFiles,       \* files in the log directories: path -> bytes
    clock,          \* wall clock in half seconds, see rounded_seconds
    nCalls,         \* run/_call_vic calls made by the caller
    proc,           \* the most recently spawned child: [id, cmd, rc]
    last,           \* the most recent operation: its request and its outcome
    file,           \* read_vic_ascii: the lines of the file at filepath
    read            \* read_vic_ascii: the call made and the names it derived

handleVars == <<constructed, executable, version, options, args, argstring,
                stdout, stderr, returncode>>
worldVars == <<env, suppFiles, tmpFiles, logFiles, clock>>
readVars == <<file, read>>
vars == <<handleVars, worldVars, nCalls, proc, last, readVars>>


(***************************************************************************)
(* Helpers over the world.                                                 *)
(***************************************************************************)
\* os.getenv(name, default)
getenv(name, default) == IF env[name] = PyNone THEN default ELSE env[name]

\* The unique name tempfile.mkstemp(prefix='vic.global.param.', suffix='.txt')
\* gives its k-th file.
mkstemp_name(k) == "/tmp/vic.global.param." \o NatToStr(k) \o ".txt"

\* os.path.isfile(path)
isfile(path) ==
    \/ path \in RegularFiles
    \/ path \in suppFiles
    \/ path \in DOMAIN logFiles
    \/ \E k \in 1..Len(tmpFiles) : path = mkstemp_name(k)

\* os.path.isfile(p) and os.access(p, os.X_OK)
is_valid_executable(path) == isfile(path) /\ path \in Executables

(***************************************************************************)
(* _call_vic, lines 101-151.  kwargs is a dict: a function from the names  *)
(* supplied to their values.                                               *)
(***************************************************************************)
KnownOptions == {"mpi_proc", "mpi_exe", "valgrind"}

\* The dict run/_call_vic receives when the caller supplies these options
\* (an option left out and one given as None pop the same value).
make_kwargs(mpi_proc, mpi_exe, valgrind, extra) ==
    LET keys == {k \in KnownOptions :
                    \/ k = "mpi_proc" /\ mpi_proc # PyNone
                    \/ k = "mpi_exe" /\ mpi_exe # PyNone
                    \/ k = "valgrind" /\ valgrind # PyNone} \cup extra
    IN  [k \in keys |-> CASE k = "mpi_proc" -> mpi_proc
                          [] k = "mpi_exe" -> mpi_exe
                          [] k = "valgrind" -> valgrind
                          [] OTHER -> PyTrue]

\* kwargs.pop(key, None): the value
kwargs_pop(kwargs, key) == IF key \in DOMAIN kwargs THEN kwargs[key] ELSE PyNone

\* norm_mpi_proc without the isinstance test of line 107
norm_mpi_proc_any_one(mpi_proc) == IF py_eq_1(mpi_proc) THEN PyNone ELSE mpi_proc

\* lines 106-109: an int equal to 1 means no MPI
norm_mpi_proc(mpi_proc) ==
    IF isinstance_int(mpi_proc) /\ py_eq_1(mpi_proc) THEN PyNone ELSE mpi_proc

\* lines 111-114: the TypeError of a given mpi_proc that is no int
mpi_type_error(mpi_proc) == mpi_proc # PyNone /\ ~isinstance_int(mpi_proc)

\* mpi_args that drops the launcher for a count that is not positive
mpi_args_positive_only(mpi_proc, mpi_exe) ==
    IF mpi_proc # PyNone /\ mpi_proc.v > 0
    THEN <<mpi_exe, PyStr("-np"), PyStr(format_d(mpi_proc.v))>>
    ELSE <<>>

\* line 115: the MPI launcher segment
mpi_args(mpi_proc, mpi_exe) ==
    IF mpi_proc # PyNone
    THEN <<mpi_exe, PyStr("-np"), PyStr(format_d(mpi_proc.v))>>
    ELSE <<>>

\* lines 120-121: the memory checker's name
valgrind_tool(valgrind) == IF valgrind = PyTrue THEN PyStr("valgrind") ELSE valgrind

\* valgrind_errorcode that never reads the environment
valgrind_errorcode_default_only == PyInt(default_vic_valgrind_error_code)

\* lines 122-123
valgrind_errorcode == getenv("VIC_VALGRIND_ERROR", PyInt(default_vic_valgrind_error_code))

\* lines 127-128
valgrind_suppressions ==
    getenv("VIC_VALGRIND_SUPPRESSIONS", PyStr(default_vic_valgrind_suppressions_path))

\* lines 129-130
suppressions_args ==
    IF isfile(valgrind_suppressions.s)
    THEN <<PyStr("--suppressions=" \o format_0(valgrind_suppressions))>>
    ELSE <<>>

\* lines 118-130: the memory-checker segment
valgrind_args(valgrind) ==
    IF truthy(valgrind)
    THEN <<valgrind_tool(valgrind), PyStr("-v"), PyStr("--leak-check=full"),
           PyStr("--error-exitcode=" \o format_0(valgrind_errorcode))>>
         \o suppressions_args
    ELSE <<>>

\* unknown_options that reports one option only
unknown_options_first(kwargs) ==
    LET left == DOMAIN kwargs \ KnownOptions
    IN  IF left = {} THEN {} ELSE {CHOOSE k \in left : TRUE}

\* line 134: the options left in kwargs after the three pops
unknown_options(kwargs) == DOMAIN kwargs \ KnownOptions

\* line 137
full_args(prefix, exe, pos) == prefix \o <<PyStr(exe)>> \o pos

\* call_vic_plan with the check of line 134 made after the Popen of line 143
call_vic_plan_late_check(exe, pos, kwargs) ==
    LET mpi_proc == norm_mpi_proc(kwargs_pop(kwargs, "mpi_proc"))
        mpi_exe == kwargs_pop(kwargs, "mpi_exe")
        a1 == mpi_args(mpi_proc, mpi_exe)
        a2 == a1 \o valgrind_args(kwargs_pop(kwargs, "valgrind"))
        a3 == full_args(a2, exe, pos)
    IN  IF mpi_type_error(mpi_proc)
        THEN [exc |-> "TypeError", names |-> {}, args |-> <<>>,
              spawn |-> FALSE, argstring |-> ""]
        ELSE IF ~join_ok(a3)
        THEN [exc |-> "TypeError", names |-> {}, args |-> a3,
              spawn |-> FALSE, argstring |-> ""]
        ELSE IF unknown_options(kwargs) # {}
        THEN [exc |-> "ValueError", names |-> unknown_options(kwargs), args |-> a3,
              spawn |-> TRUE, argstring |-> join(a3)]
        ELSE [exc |-> "none", names |-> {}, args |-> a3,
              spawn |-> TRUE, argstring |-> join(a3)]

\* What one _call_vic does up to the Popen of line 143: the exception it raises
\* (exc, with the options its message names), self.args as it leaves it, and,
\* when it reaches line 143 (spawn), the command string it executes.
call_vic_plan(exe, pos, kwargs) ==
    LET mpi_proc == norm_mpi_proc(kwargs_pop(kwargs, "mpi_proc"))
        mpi_exe == kwargs_pop(kwargs, "mpi_exe")
        a1 == mpi_args(mpi_proc, mpi_exe)
        a2 == a1 \o valgrind_args(kwargs_pop(kwargs, "valgrind"))
        a3 == full_args(a2, exe, pos)
    IN  IF mpi_type_error(mpi_proc)
        THEN [exc |-> "TypeError", names |-> {}, args |-> <<>>,
              spawn |-> FALSE, argstring |-> ""]
        ELSE IF unknown_options(kwargs) # {}
        THEN [exc |-> "ValueError", names |-> unknown_options(kwargs), args |-> a2,
              spawn |-> FALSE, argstring |-> ""]
        ELSE IF ~join_ok(a3)
        THEN [exc |-> "TypeError", names |-> {}, args |-> a3,
              spawn |-> FALSE, argstring |-> ""]
        ELSE [exc |-> "none", names |-> {}, args |-> a3,
              spawn |-> TRUE, argstring |-> join(a3)]

\* call_vic_effect with line 150 storing retvals[0]
call_vic_effect_stderr_slip(plan, rc) ==
    /\ args' = plan.args
    /\ IF plan.spawn
       THEN /\ argstring' = plan.argstring
            /\ proc' = [id |-> proc.id + 1, cmd |-> plan.argstring, rc |-> rc]
            /\ stdout' = Stdout(proc.id + 1)
            /\ stderr' = Stdout(proc.id + 1)
            /\ returncode' = rc
       ELSE UNCHANGED <<argstring, proc, stdout, stderr, returncode>>

\* call_vic_effect without line 141: the command is joined but not kept
call_vic_effect_no_argstring(plan, rc) ==
    /\ args' = plan.args
    /\ IF plan.spawn
       THEN /\ argstring' = argstring
            /\ proc' = [id |-> proc.id + 1, cmd |-> plan.argstring, rc |-> rc]
            /\ stdout' = Stdout(proc.id + 1)
            /\ stderr' = Stderr(proc.id + 1)
            /\ returncode' = rc
       ELSE UNCHANGED <<argstring, proc, stdout, stderr, returncode>>

\* The effect of one _call_vic on the handle and on the process table: line 103
\* and the extends always, lines 141-151 only when the call reaches them.
call_vic_effect(plan, rc) ==
    /\ args' = plan.args
    /\ IF plan.spawn
       THEN /\ argstring' = plan.argstring
            /\ proc' = [id |-> proc.id + 1, cmd |-> plan.argstring, rc |-> rc]
            /\ stdout' = Stdout(proc.id + 1)
            /\ stderr' = Stderr(proc.id + 1)
            /\ returncode' = rc
       ELSE UNCHANGED <<argstring, proc, stdout, stderr, returncode>>

(***************************************************************************)
(* The record of the most recent operation.                                *)
(***************************************************************************)
Req(path, pos, mpi_proc, mpi_exe, valgrind, extra, global_param, logdir) ==
    [path |-> path, pos |-> pos, mpi_proc |-> mpi_proc, mpi_exe |-> mpi_exe,
     valgrind |-> valgrind, extra |-> extra, global_param |-> global_param,
     logdir |-> logdir]

NoReq == Req("", <<>>, PyNone, PyNone, PyNone, {}, "", PyNone)

\* op: the operation; exc: the exception it raised, "none" when it returned;
\* names: the options the exception's message names; cmds: the commands of the
\* children it spawned, in order; created: the log files it created that did not
\* exist before; written: the log files it wrote; req: what the caller passed.
Outcome(op, exc, nms, cmds, created, written, req) ==
    [op |-> op, exc |-> exc, names |-> nms, cmds |-> cmds, created |-> created,
     written |-> written, req |-> req]

(***************************************************************************)
(* VIC.__init__, lines 25-43.                                              *)
(***************************************************************************)
\* _get_version asking for the options
version_flag_slip == "-o"

\* _get_version and _get_options: the flag each probe passes
version_flag == "-v"
options_flag == "-o"

VIC_init(path, rc1, rc2) ==
    /\ ~constructed
    /\ IF is_valid_executable(path)
       THEN LET p1 == call_vic_plan(path, <<PyStr(version_flag)>>, make_kwargs(PyNone, PyNone, PyNone, {}))
                p2 == call_vic_plan(path, <<PyStr(options_flag)>>, make_kwargs(PyNone, PyNone, PyNone, {}))
            IN  /\ constructed' = TRUE
                /\ executable' = path
                /\ version' = Stdout(proc.id + 1)
                /\ options' = Stdout(proc.id + 2)
                /\ args' = <<>>
                /\ argstring' = ""
                /\ stdout' = Stdout(proc.id + 2)
                /\ stderr' = Stderr(proc.id + 2)
                /\ returncode' = rc2
                /\ proc' = [id |-> proc.id + 2, cmd |-> p2.argstring, rc |-> rc2]
                /\ last' = Outcome("init", "none", {}, <<p1.argstring, p2.argstring>>, {}, {},
                                   Req(path, <<>>, PyNone, PyNone, PyNone, {}, "", PyNone))
       ELSE /\ last' = Outcome("init", "VICRuntimeError", {}, <<>>, {}, {},
                               Req(path, <<>>, PyNone, PyNone, PyNone, {}, "", PyNone))
            /\ UNCHANGED <<handleVars, proc>>
    /\ UNCHANGED <<worldVars, nCalls, readVars>>

(***************************************************************************)
(* A direct call of _call_vic by the caller.                               *)
(***************************************************************************)
VIC_call_vic(pos, mpi_proc, mpi_exe, valgrind, extra, rc) ==
    /\ constructed
    /\ nCalls < MaxCalls
    /\ LET plan == call_vic_plan(executable, pos, make_kwargs(mpi_proc, mpi_exe, valgrind, extra))
       IN  /\ plan.spawn \/ rc = 0      \* no child, no exit code to choose
           /\ call_vic_effect(plan, rc)
           /\ last' = Outcome("_call_vic", plan.exc, plan.names,
                              IF plan.spawn THEN <<plan.argstring>> ELSE <<>>, {}, {},
                              Req("", pos, mpi_proc, mpi_exe, valgrind, extra, "", PyNone))
    /\ nCalls' = nCalls + 1
    /\ UNCHANGED <<constructed, executable, version, options, worldVars, readVars>>

(***************************************************************************)
(* VIC.run, lines 45-99.                                                   *)
(***************************************************************************)
\* The clock reads clock/2 + 1/4 seconds after local midnight: it advances in
\* half seconds and never shows a whole or a half second exactly.
\* "%05.f" % seconds rounds to the nearest whole second (lines 89-91).
rounded_seconds(c) == (c + 1) \div 2

RECURSIVE zero_pad(_, _)
zero_pad(str, width) == IF Len(str) >= width THEN str ELSE zero_pad("0" \o str, width)

\* line 91
timestr(c) == Today \o "_" \o zero_pad(NatToStr(rounded_seconds(c)), 5)

\* lines 92 and 95: os.path.join(logdir, 'stdout_{0}.txt'.format(timestr))
log_path(logdir, stream, c) == logdir \o "/" \o stream \o "_" \o timestr(c) \o ".txt"

VIC_run(global_param, logdir, mpi_proc, mpi_exe, valgrind, extra, mkstemp_ok, rc) ==
    /\ constructed
    /\ nCalls < MaxCalls
    /\ nCalls' = nCalls + 1
    /\ UNCHANGED <<constructed, executable, version, options, env, suppFiles, clock, readVars>>
    /\ LET req == Req("", <<>>, mpi_proc, mpi_exe, valgrind, extra, global_param, logdir)
           is_path == isfile(global_param)
           global_param_file == IF is_path THEN global_param
                                ELSE mkstemp_name(Len(tmpFiles) + 1)
           plan == call_vic_plan(executable, <<PyStr("-g"), PyStr(global_param_file)>>,
                                 make_kwargs(mpi_proc, mpi_exe, valgrind, extra))
           out_path == log_path(logdir.s, "stdout", clock)
           err_path == log_path(logdir.s, "stderr", clock)
       IN  IF ~is_path /\ ~mkstemp_ok
           THEN \* lines 79-83 raise: no temporary file, nothing else happens
                /\ rc = 0
                /\ last' = Outcome("run", "IOError", {}, <<>>, {}, {}, req)
                /\ UNCHANGED <<args, argstring, stdout, stderr, returncode, proc,
                               tmpFiles, logFiles>>
           ELSE /\ is_path => mkstemp_ok  \* mkstemp is not called, nothing to choose
                /\ plan.spawn \/ rc = 0   \* no child, no exit code to choose
                /\ tmpFiles' = IF is_path THEN tmpFiles ELSE Append(tmpFiles, global_param)
                /\ call_vic_effect(plan, rc)
                /\ IF plan.exc # "none"
                   THEN /\ last' = Outcome("run", plan.exc, plan.names,
                                           IF plan.spawn THEN <<plan.argstring>> ELSE <<>>,
                                           {}, {}, req)
                        /\ UNCHANGED logFiles
                   ELSE IF ~truthy(logdir)
                   THEN /\ last' = Outcome("run", "none", {}, <<plan.argstring>>, {}, {}, req)
                        /\ UNCHANGED logFiles
                   ELSE IF logdir.s \in Directories
                   THEN /\ logFiles' = (err_path :> stderr') @@ (out_path :> stdout') @@ logFiles
                        /\ last' = Outcome("run", "none", {}, <<plan.argstring>>,
                                           {out_path, err_path} \ DOMAIN logFiles,
                                           {out_path, err_path}, req)
                   ELSE \* open() of line 92 raises: the directory does not exist
                        /\ last' = Outcome("run", "IOError", {}, <<plan.argstring>>, {}, {}, req)
                        /\ UNCHANGED logFiles

(***************************************************************************)
(* The environment of the handle.                                          *)
(***************************************************************************)
\* Time passes.
Tick ==
    /\ clock < MaxTick
    /\ clock' = clock + 1
    /\ UNCHANGED <<handleVars, env, suppFiles, tmpFiles, logFiles, nCalls, proc, last, readVars>>

\* os.environ changes
SetEnv(name, value) ==
    /\ env[name] # value
    /\ env' = [env EXCEPT ![name] = value]
    /\ UNCHANGED <<handleVars, suppFiles, tmpFiles, logFiles, clock, nCalls, proc, last, readVars>>

\* A suppressions file is created or removed
ToggleSuppressions(path) ==
    /\ suppFiles' = IF path \in suppFiles THEN suppFiles \ {path} ELSE suppFiles \cup {path}
    /\ UNCHANGED <<handleVars, env, tmpFiles, logFiles, clock, nCalls, proc, last, readVars>>

(***************************************************************************)
(* read_vic_ascii, lines 156-184: the column names.  A line is a sequence  *)
(* of characters, a name is a sequence of characters.                      *)
(***************************************************************************)
RECURSIVE lstrip(_, _)
lstrip(str, ch) == IF str # <<>> /\ Head(str) = ch THEN lstrip(Tail(str), ch) ELSE str

RECURSIVE rstrip(_, _)
rstrip(str, ch) ==
    IF str # <<>> /\ str[Len(str)] = ch THEN rstrip(SubSeq(str, 1, Len(str) - 1), ch) ELSE str

\* str.strip(ch): every leading and every trailing ch goes
strip(str, ch) == rstrip(lstrip(str, ch), ch)

\* str.replace(old, ''): every occurrence, found left to right without overlap
RECURSIVE replace_by_empty(_, _)
replace_by_empty(str, old) ==
    IF Len(str) < Len(old) THEN str
    ELSE IF SubSeq(str, 1, Len(old)) = old
    THEN replace_by_empty(SubSeq(str, Len(old) + 1, Len(str)), old)
    ELSE <<Head(str)>> \o replace_by_empty(Tail(str), old)

Whitespace == {" ", "\t", "\n"}

\* str.split(): the maximal runs of characters that are not whitespace
RECURSIVE split_from(_, _, _)
split_from(str, word, done) ==
    IF str = <<>> THEN (IF word = <<>> THEN done ELSE Append(done, word))
    ELSE IF Head(str) \in Whitespace
    THEN split_from(Tail(str), <<>>, IF word = <<>> THEN done ELSE Append(done, word))
    ELSE split_from(Tail(str), Append(word, Head(str)), done)

split(str) == split_from(str, <<>>, <<>>)

OUT_ == <<"O", "U", "T", "_">>

\* line 182
header_names(line) == split(replace_by_empty(strip(line, "#"), OUT_))

\* lines 175-181: for _ in range(5): next(f), then names = next(f)
header_line(lines) == lines[6]

NotRead == [done |-> FALSE, header |-> FALSE, given |-> <<>>, names |-> <<>>]
\* names=None
NoNames == <<<<"None">>>>

\* lines 168-184: kwargs['names'] after the call
read_vic_ascii(header, given) ==
    /\ ~read.done
    /\ read' = [done |-> TRUE, header |-> header, given |-> given,
                names |-> IF header /\ given = NoNames
                          THEN header_names(header_line(file))
                          ELSE given]
    /\ UNCHANGED <<handleVars, worldVars, nCalls, proc, last, file>>

(***************************************************************************)
(* Initial state: no handle yet, nothing read yet.                         *)
(***************************************************************************)
InitHandle ==
    /\ constructed = FALSE
    /\ executable = ""
    /\ version = Stdout(0)
    /\ options = Stdout(0)
    /\ args = <<>>
    /\ argstring = ""
    /\ stdout = Stdout(0)
    /\ stderr = Stderr(0)
    /\ returncode = 0
    /\ env = [n \in {"VIC_VALGRIND_ERROR", "VIC_VALGRIND_SUPPRESSIONS"} |-> PyNone]
    /\ suppFiles = {}
    /\ tmpFiles = <<>>
    /\ logFiles = <<>>
    /\ clock = 0
    /\ nCalls = 0
    /\ proc = [id |-> 0, cmd |-> "", rc |-> 0]
    /\ last = Outcome("none", "none", {}, <<>>, {}, {}, NoReq)

Init ==
    /\ InitHandle
    /\ file = <<>>
    /\ read = NotRead

(***************************************************************************)
(* What callers pass.                                                      *)
(***************************************************************************)
MpiProcs == {PyNone, PyInt(2), PyStr("2")}
MpiProcsWide == {PyNone, PyInt(1), PyInt(2), PyInt(0), PyInt(0 - 1), PyTrue, PyFalse,
                 PyFloat(10), PyFloat(25), PyStr("2")}
MpiExes == {PyNone, PyStr("mpirun")}
Valgrinds == {PyNone, PyTrue, PyFalse, PyStr("/opt/valgrind")}
Extras == {{}, {"foo"}, {"foo", "bar"}}
GlobalParams == {"gp.txt", "NLAYER 3"}
LogDirs == {PyNone, PyStr("logs"), PyStr("nodir")}
PosArgs == {<<PyStr("-o")>>}
EnvErrorCodes == {PyNone, PyStr("7")}
EnvSuppressions == {PyNone, PyStr("my.supp")}

Construct == \E path \in Paths, rc1, rc2 \in RetCodes : VIC_init(path, rc1, rc2)

CallVic(MP, ME, VG, EX) ==
    \E pos \in PosArgs, mpi_proc \in MP, mpi_exe \in ME, valgrind \in VG, extra \in EX,
       rc \in RetCodes :
        VIC_call_vic(pos, mpi_proc, mpi_exe, valgrind, extra, rc)

Run(GP, LD, MP, ME, VG, EX) ==
    \E global_param \in GP, logdir \in LD, mpi_proc \in MP, mpi_exe \in ME,
       valgrind \in VG, extra \in EX, mkstemp_ok \in BOOLEAN, rc \in RetCodes :
        VIC_run(global_param, logdir, mpi_proc, mpi_exe, valgrind, extra, mkstemp_ok, rc)

\* The handle's life: construction, then calls that return and calls that raise.
Next ==
    \/ Construct
    \/ CallVic(MpiProcs, {PyStr("mpirun")}, {PyNone}, {{}, {"foo"}})
    \/ Run(GlobalParams, LogDirs, MpiProcs, {PyStr("mpirun")}, {PyNone}, {{}, {"foo"}})

Spec == Init /\ [][Next]_vars

\* The options of a call, over every kind of mpi_proc value.
NextMpi ==
    \/ Construct
    \/ CallVic(MpiProcsWide, MpiExes, {PyNone}, Extras)
    \/ Run({"gp.txt"}, {PyNone}, MpiProcsWide, MpiExes, {PyNone}, Extras)

SpecMpi == Init /\ [][NextMpi]_vars

\* The memory checker's segment, under a changing environment.
NextValgrind ==
    \/ Construct
    \/ CallVic({PyNone, PyInt(2)}, {PyStr("mpirun")}, Valgrinds, {{}})
    \/ Run({"gp.txt"}, {PyNone}, {PyNone}, {PyNone}, {PyNone, PyTrue}, {{}})
    \/ \E value \in EnvErrorCodes : SetEnv("VIC_VALGRIND_ERROR", value)
    \/ \E value \in EnvSuppressions : SetEnv("VIC_VALGRIND_SUPPRESSIONS", value)
    \/ \E path \in {default_vic_valgrind_suppressions_path, "my.supp"} : ToggleSuppressions(path)

SpecValgrind == Init /\ [][NextValgrind]_vars

\* Runs that write logs while time passes.
NextLog ==
    \/ Construct
    \/ Run(GlobalParams, LogDirs, {PyNone}, {PyNone}, {PyNone}, {{}})
    \/ Tick

SpecLog == Init /\ [][NextLog]_vars

(***************************************************************************)
(* Files read_vic_ascii is given: five lines, the header line, the data.   *)
(***************************************************************************)
Pieces == {<<"#">>, <<" ">>, OUT_, <<"A">>}

RECURSIVE concat(_)
concat(seqs) == IF seqs = <<>> THEN <<>> ELSE Head(seqs) \o concat(Tail(seqs))

\* The header lines made of at most MaxPieces pieces.
HeaderTexts == {concat(ps) : ps \in UNION {[1..n -> Pieces] : n \in 0..MaxPieces}}

Preamble == << <<"#", " ", "N", "\n">>, <<"#", "\n">>, <<"#", "\n">>, <<"#", "\n">>,
               <<"#", " ", "N", "\n">> >>
DataLine == <<"1", " ", "2", "\n">>

\* A header line followed by data ends in a newline; a file that ends with its
\* header line may lack it.
Files ==
    {Preamble \o <<h \o <<"\n">>, DataLine>> : h \in HeaderTexts}
    \cup {Preamble \o <<h>> : h \in HeaderTexts \ {<<>>}}

InitRead ==
    /\ InitHandle
    /\ file \in Files
    /\ read = NotRead

NextRead == \E header \in BOOLEAN, given \in {NoNames, << <<"X">> >>} : read_vic_ascii(header, given)

SpecRead == InitRead /\ [][NextRead]_vars


(***************************************************************************)
(* Properties.                                                             *)
(***************************************************************************)
\* The most recent operation was a call of run or _call_vic.
Called == last.op \in {"run", "_call_vic"}

\* C1, as stated: once a call of run or _call_vic has been made, the cached
\* stdout, stderr and returncode are those of a child spawned by that call, so no
\* earlier invocation's output is still readable.
C1_OutputOfLatestCall ==
    constructed /\ Called =>
        /\ last.cmds # <<>>
        /\ stdout = Stdout(proc.id)
        /\ stderr = Stderr(proc.id)
        /\ returncode = proc.rc

\* C1, amended: the cached stdout, stderr and returncode of a handle are always
\* those of the most recently spawned child (a call that raises before it
\* spawns leaves the previous child's output readable).
C1_CacheIsLatestChild ==
    constructed =>
        /\ stdout = Stdout(proc.id)
        /\ stderr = Stderr(proc.id)
        /\ returncode = proc.rc
        /\ proc.id >= 2

\* A call returned, then a call raised: the third child's output is still cached.
C1_Witness ==
    /\ constructed
    /\ Called
    /\ last.exc \in {"TypeError", "ValueError"}
    /\ stdout = Stdout(3)

\* An mpi_proc whose type is invalid: given, and no integer.
C2_InvalidMpiType(mpi_proc) == mpi_proc.t \notin {"NoneType", "int", "bool"}

\* C2: a call of run or _call_vic with an mpi_proc of invalid type or with any
\* option other than mpi_proc, mpi_exe and valgrind raises and spawns no child;
\* raised for unrecognized options, the error names every one of them.
C2_InvalidCallSpawnsNothing ==
    Called /\ (C2_InvalidMpiType(last.req.mpi_proc) \/ last.req.extra # {}) =>
        /\ last.exc \in {"TypeError", "ValueError"}
        /\ last.cmds = <<>>
        /\ last.exc = "ValueError" => last.names = last.req.extra
        /\ ~C2_InvalidMpiType(last.req.mpi_proc) => last.exc = "ValueError"

\* A call with two unrecognized options raised ValueError naming both.
C2_Witness ==
    /\ Called
    /\ last.exc = "ValueError"
    /\ last.names = {"foo", "bar"}

\* The command a call executes: the launcher segment, the executable, the flags.
C3_Tail == IF last.op = "run" THEN " -g " \o last.req.global_param ELSE " -o"
C3_PlainCommand == executable \o C3_Tail
C3_MpiCommand ==
    last.req.mpi_exe.s \o " -np " \o format_d(last.req.mpi_proc.v) \o " " \o C3_PlainCommand

\* C3, as stated: an mpi_proc equal to 1 gives a command without launcher; any
\* other integer puts <mpi_exe> -np <value> before the executable; a non-integer
\* other than 1 fails with TypeError before a child is spawned.
C3_MpiPrefixByValue ==
    Called =>
        LET mp == last.req.mpi_proc
        IN  /\ py_eq_1(mp) /\ last.req.extra = {} =>
                last.exc = "none" /\ last.cmds = <<C3_PlainCommand>>
            /\ isinstance_int(mp) /\ ~py_eq_1(mp) /\ last.exc = "none" =>
                last.cmds = <<C3_MpiCommand>>
            /\ mp # PyNone /\ ~isinstance_int(mp) /\ ~py_eq_1(mp) =>
                last.exc = "TypeError" /\ last.cmds = <<>>

\* C3, amended: an integer mpi_proc equal to 1 (True included) gives a command
\* without launcher; any other integer puts <mpi_exe> -np <value> before the
\* executable; every given value that is no integer, a float equal to 1
\* included, fails with TypeError before a child is spawned.
C3_MpiPrefixByIntValue ==
    Called =>
        LET mp == last.req.mpi_proc
        IN  /\ isinstance_int(mp) /\ mp.v = 1 /\ last.req.extra = {} =>
                last.exc = "none" /\ last.cmds = <<C3_PlainCommand>>
            /\ isinstance_int(mp) /\ mp.v # 1 /\ last.exc = "none" =>
                /\ last.cmds = <<C3_MpiCommand>>
                /\ SubSeq(args, 1, 4) = <<last.req.mpi_exe, PyStr("-np"),
                                          PyStr(format_d(mp.v)), PyStr(executable)>>
            /\ isinstance_int(mp) /\ mp.v # 1 /\ last.req.mpi_exe # PyNone
                  /\ last.req.extra = {} => last.exc = "none"
            /\ mp # PyNone /\ ~isinstance_int(mp) =>
                last.exc = "TypeError" /\ last.cmds = <<>> /\ args = <<>>

\* A call with mpi_proc=1.0 raised TypeError.
C3_Witness ==
    /\ Called
    /\ last.req.mpi_proc = PyFloat(10)
    /\ last.exc = "TypeError"
    /\ last.cmds = <<>>

\* C4, as stated: a call with mpi_proc zero or negative is rejected and spawns
\* no child.
C4_NonPositiveRejected ==
    Called /\ isinstance_int(last.req.mpi_proc) /\ last.req.mpi_proc.v <= 0 =>
        last.exc # "none" /\ last.cmds = <<>>

\* C4, amended: a given MPI process count must be an integer, and a value that
\* is none is rejected before a child is spawned; zero and negative integers are
\* not rejected: with a launcher path and no unrecognized option the child is
\* spawned with that count after -np.
C4_IntegerNotPositivity ==
    Called =>
        LET mp == last.req.mpi_proc
        IN  /\ mp # PyNone /\ ~isinstance_int(mp) =>
                last.exc = "TypeError" /\ last.cmds = <<>>
            /\ isinstance_int(mp) /\ mp.v <= 0 /\ last.req.mpi_exe # PyNone
                  /\ last.req.extra = {} =>
                /\ last.exc = "none"
                /\ last.cmds = <<C3_MpiCommand>>
                /\ proc.cmd = C3_MpiCommand

\* A child was spawned with -np 0.
C4_Witness ==
    /\ Called
    /\ last.req.mpi_proc = PyInt(0)
    /\ last.cmds = <<"mpirun -np 0 " \o executable \o " -o">>

\* The command C5 prescribes for a request, in the environment of the call.
C5_Mpi(req) ==
    IF isinstance_int(req.mpi_proc) /\ req.mpi_proc.v # 1
    THEN req.mpi_exe.s \o " -np " \o format_d(req.mpi_proc.v) \o " "
    ELSE ""
C5_ErrorCode ==
    IF env["VIC_VALGRIND_ERROR"] = PyNone THEN "125" ELSE env["VIC_VALGRIND_ERROR"].s
C5_SuppressionsPath ==
    IF env["VIC_VALGRIND_SUPPRESSIONS"] = PyNone
    THEN "vic_valgrind_suppressions.supp"
    ELSE env["VIC_VALGRIND_SUPPRESSIONS"].s
C5_Valgrind(req) ==
    IF req.valgrind \in {PyNone, PyFalse, PyStr("")}
    THEN ""
    ELSE (IF req.valgrind = PyTrue THEN "valgrind" ELSE req.valgrind.s)
         \o " -v --leak-check=full --error-exitcode=" \o C5_ErrorCode
         \o (IF C5_SuppressionsPath \in suppFiles
             THEN " --suppressions=" \o C5_SuppressionsPath ELSE "")
         \o " "
C5_Command(op, req, exe) ==
    C5_Mpi(req) \o C5_Valgrind(req) \o exe
    \o (IF op = "run" THEN " -g " \o req.global_param ELSE " -o")

\* C5: every command _call_vic executes is [mpi_exe -np N] [valgrind -v
\* --leak-check=full --error-exitcode=E [--suppressions=PATH]] executable
\* arguments, in that order and with nothing of an earlier call; valgrind=True
\* names the bare valgrind, E is VIC_VALGRIND_ERROR if set and 125 otherwise,
\* the suppressions flag is there exactly if the file exists at call time, and
\* a valgrind absent or falsy gives no memory-checker segment.
C5_CommandShape ==
    [][nCalls' # nCalls /\ last'.cmds # <<>> =>
          /\ last'.cmds = <<C5_Command(last'.op, last'.req, executable)>>
          /\ proc'.cmd = C5_Command(last'.op, last'.req, executable)
          /\ argstring' = proc'.cmd
          /\ join_ok(args')]_vars

\* A call with every segment: launcher, valgrind=True, an error code from the
\* environment and an existing suppressions file.
C5_Witness ==
    /\ Called
    /\ last.req.valgrind = PyTrue
    /\ argstring = "mpirun -np 2 valgrind -v --leak-check=full --error-exitcode=7 "
                   \o "--suppressions=my.supp " \o executable \o " -o"

\* C6, as stated: no call raises after its child was spawned.
C6_NoRaiseAfterSpawn == Called /\ last.exc # "none" => last.cmds = <<>>

\* C6, amended: every call of _call_vic, and every call of run without a log
\* directory or with one that exists, either spawns its child and returns or
\* raises before any child is spawned; a run whose log files cannot be created
\* raises IOError after its child was spawned and its output cached.
C6_RaiseAfterSpawnOnlyForLogs ==
    Called =>
        /\ last.exc = "none" => Len(last.cmds) = 1
        /\ last.exc # "none" /\ last.cmds # <<>> =>
              /\ last.op = "run"
              /\ last.exc = "IOError"
              /\ truthy(last.req.logdir)
              /\ last.req.logdir.s \notin Directories
              /\ stdout = Stdout(proc.id)
        /\ last.op = "run" /\ truthy(last.req.logdir) /\ last.req.logdir.s \notin Directories
              /\ last.req.extra = {} /\ ~C2_InvalidMpiType(last.req.mpi_proc)
              /\ last.exc # "none" /\ last.req.global_param \in RegularFiles =>
              last.cmds # <<>>

\* A run raised IOError for its log directory after its child ran.
C6_Witness ==
    /\ last.op = "run"
    /\ last.exc = "IOError"
    /\ Len(last.cmds) = 1
    /\ last.req.logdir = PyStr("nodir")

\* C7: a run with a log directory that returns leaves exactly two files that
\* did not exist before it, stdout_<T>.txt and stderr_<T>.txt with one T, holding
\* its captured stdout and stderr, also when an earlier run completed within the
\* same clock second.
C7_TwoNewLogFiles ==
    last.op = "run" /\ last.exc = "none" /\ truthy(last.req.logdir) =>
        /\ \E c \in 0..MaxTick :
              last.written = {log_path(last.req.logdir.s, "stdout", c),
                              log_path(last.req.logdir.s, "stderr", c)}
        /\ Cardinality(last.written) = 2
        /\ last.created = last.written
        /\ \A f \in last.written : f \in DOMAIN logFiles
        /\ \E f \in last.written : logFiles[f] = stdout
        /\ \E f \in last.written : logFiles[f] = stderr

\* C8: construction with a path that is no executable file raises
\* VICRuntimeError and spawns nothing; with an executable it spawns exactly
\* '<executable> -v' then '<executable> -o' and keeps the first stdout as version,
\* the second as options; no later call changes executable, version or options.
C8_Construction ==
    /\ [](last.op = "init" /\ last.req.path \notin Executables =>
            /\ last.exc = "VICRuntimeError"
            /\ last.cmds = <<>>
            /\ ~constructed
            /\ proc.id = 0)
    /\ [](last.op = "init" /\ last.req.path \in Executables =>
            /\ last.exc = "none"
            /\ last.cmds = <<last.req.path \o " -v", last.req.path \o " -o">>
            /\ constructed
            /\ executable = last.req.path
            /\ version = Stdout(1)
            /\ options = Stdout(2)
            /\ proc.id = 2)
    /\ [][constructed => constructed' /\ UNCHANGED <<executable, version, options>>]_vars

\* A constructed handle after a call that returned and a call that raised.
C8_Witness ==
    /\ constructed
    /\ version = Stdout(1)
    /\ options = Stdout(2)
    /\ proc.id >= 3
    /\ last.exc = "ValueError"

\* The transform C9 takes as reference: drop one leading marker, split on
\* whitespace, drop OUT_ where a token starts with it.
C9_Reference(line) ==
    LET body == IF line # <<>> /\ Head(line) = "#" THEN Tail(line) ELSE line
        toks == split(body)
    IN  [i \in 1..Len(toks) |->
            IF Len(toks[i]) >= 4 /\ SubSeq(toks[i], 1, 4) = OUT_
            THEN SubSeq(toks[i], 5, Len(toks[i]))
            ELSE toks[i]]

\* C9: with header=True and no names given, the names read_vic_ascii derives
\* are the reference transform of line 6, in number and in order.
C9_NamesEqualReference ==
    read.done /\ read.header /\ read.given = NoNames =>
        read.names = C9_Reference(file[6])

====
